---- MODULE Spec2Model ----
(***************************************************************************)
(* Model of the graph service of nvv-graph: the loader that turns the      *)
(* relationship table into typed edge partitions and a property graph      *)
(* (src/src/loader.py), the two request handlers get_node and              *)
(* get_node_neighbors (src/src/api.py) that query the DuckDB session, and  *)
(* the path resolution of process_data (src/src/icij_processor.py).        *)
(*                                                                         *)
(* Strings that the code builds, splits or interpolates are sequences of   *)
(* tokens: a type name is a sequence of one-character tokens, "_" is a     *)
(* token, the prefix "rel_" is one token, a node id is a sequence of       *)
(* tokens (a quote is a token of its own).  Tables are bags: a function    *)
(* from a row to the number of times the table holds it.                   *)
(***************************************************************************)
EXTENDS Integers, Sequences, FiniteSets, TLC

VARIABLES
    config,        \* the configuration load_config returns
    loaded,        \* number of load_data runs completed on the session; -1: a run raised
    relationships, \* the rows of table relationships of the session
    replaced,      \* the rows of the table relationships that the latest run replaced
    relTables,     \* the rel_* tables of the session: table name -> bag of typed rows
    pgEdges,       \* edge tables of property graph icij_graph
    req,           \* the last request served
    resp,          \* its response
    issued,        \* the statements it sent to the session, in order
    environ,       \* os.environ as process_data reads it
    fsys,          \* the paths that exist (os.path.exists)
    pconfig,       \* the configuration handed to process_data
    processed      \* what process_data did with it

\* the engine session
session == <<loaded, relationships, replaced, relTables, pgEdges>>

\* the request being served
request == <<req, resp, issued>>

\* the processor and its environment
processor == <<environ, fsys, pconfig, processed>>

vars == <<config, session, request, processor>>

-----------------------------------------------------------------------------
(* Bounds of the model *)

\* At most this many rows in the relationships file of one load.
MaxRels == 2

\* The engine call of a request that may fail: 1 is SHOW TABLES, 2 the
\* pattern query, 3.. the property batches; 0 is no failure.
MaxFailAt == 3

\* The largest limit below the default that a request carries.
MaxSmallLimit == 2

\* At most this many runs of load_data on one session.
MaxLoads == 2

\* At most this many files exist when process_data is called.
MaxFiles == 2

-----------------------------------------------------------------------------
(* Helpers on sequences and bags *)

Range(s) == {s[i] : i \in DOMAIN s}

Min(S) == CHOOSE x \in S : \A y \in S : x <= y

RECURSIVE SumOver(_, _)
\* sum of f[x] over the finite set S \subseteq DOMAIN f
SumOver(f, S) ==
    IF S = {} THEN 0
    ELSE LET x == CHOOSE y \in S : TRUE IN f[x] + SumOver(f, S \ {x})

BagSize(b) == SumOver(b, DOMAIN b)

EmptyBag == [x \in {} |-> 0]

\* the bag b restricted to its rows that occur at least once
Positive(b) == [x \in {y \in DOMAIN b : b[y] > 0} |-> b[x]]

\* bag union (UNION ALL)
BagPlus(a, b) ==
    [x \in DOMAIN a \cup DOMAIN b |->
        (IF x \in DOMAIN a THEN a[x] ELSE 0) + (IF x \in DOMAIN b THEN b[x] ELSE 0)]

RECURSIVE Draws(_, _)
\* every sequence of k rows drawn from bag b without replacement (k at most
\* the size of b)
Draws(b, k) ==
    IF k = 0 THEN {<<>>}
    ELSE UNION {{Append(s, x) :
                    x \in {y \in DOMAIN b :
                              Cardinality({i \in DOMAIN s : s[i] = y}) < b[y]}} :
                s \in Draws(b, k - 1)}

-----------------------------------------------------------------------------
(* The configuration (config/icij.yaml as load_config returns it) and the  *)
(* files it names.  label and node_type of a node source are equal, as the *)
(* handlers use node_type where the loader declared label.                 *)

None == <<>>

\* a catalog of simple type names
icij ==
    [sources |->
        << [table |-> <<"officers">>,      node_type |-> <<"o">>, label |-> <<"o">>, id_field |-> "node_id"],
           [table |-> <<"entities">>,      node_type |-> <<"e">>, label |-> <<"e">>, id_field |-> "node_id"],
           [table |-> <<"notes">>,         node_type |-> <<"n">>, label |-> None,    id_field |-> ""],
           [table |-> <<"relationships">>, node_type |-> None,    label |-> None,    id_field |-> ""] >>]

\* a catalog with a type name that holds the separator: "o" and "o_o"
underscored ==
    [sources |->
        << [table |-> <<"officers">>,      node_type |-> <<"o">>,           label |-> <<"o">>,
                                           id_field |-> "node_id"],
           [table |-> <<"owners">>,        node_type |-> <<"o", "_", "o">>, label |-> <<"o", "_", "o">>,
                                           id_field |-> "node_id"],
           [table |-> <<"relationships">>, node_type |-> None,              label |-> None,
                                           id_field |-> ""] >>]

\* config["sources"] / config.get("sources", [])
sources == config.sources

\* The rows of each node file, in storage order.  Id 4 occurs twice in
\* entities; id 1 occurs in officers and in entities.
NodeFile(table) ==
    CASE table = <<"officers">> -> << [node_id |-> <<"1">>, name |-> "a"],
                                      [node_id |-> <<"2">>, name |-> "b"],
                                      [node_id |-> <<"5">>, name |-> "g"] >>
      [] table = <<"entities">> -> << [node_id |-> <<"3">>, name |-> "c"],
                                      [node_id |-> <<"4">>, name |-> "d"],
                                      [node_id |-> <<"1">>, name |-> "e"],
                                      [node_id |-> <<"4">>, name |-> "f"] >>
      [] table = <<"owners">>   -> << [node_id |-> <<"6">>, name |-> "h"],
                                      [node_id |-> <<"7">>, name |-> "i"] >>
      [] OTHER -> << >>

\* The rows a relationships file may hold: (node_id_start, node_id_end).
\* Id 8 is in no node file.
CandRels ==
    IF config = icij
    THEN { [node_id_start |-> <<"1">>, node_id_end |-> <<"3">>],
           [node_id_start |-> <<"2">>, node_id_end |-> <<"1">>],
           [node_id_start |-> <<"2">>, node_id_end |-> <<"2">>],
           [node_id_start |-> <<"3">>, node_id_end |-> <<"2">>],
           [node_id_start |-> <<"5">>, node_id_end |-> <<"4">>],
           [node_id_start |-> <<"8">>, node_id_end |-> <<"3">>] }
    ELSE { [node_id_start |-> <<"1">>, node_id_end |-> <<"6">>],
           [node_id_start |-> <<"6">>, node_id_end |-> <<"2">>],
           [node_id_start |-> <<"6">>, node_id_end |-> <<"7">>],
           [node_id_start |-> <<"1">>, node_id_end |-> <<"2">>],
           [node_id_start |-> <<"8">>, node_id_end |-> <<"6">>] }

RelFiles == {R \in SUBSET CandRels : Cardinality(R) <= MaxRels}

-----------------------------------------------------------------------------
(* load_data *)

\* node_labels: label -> table, for the sources that declare a label
node_labels == {[label |-> sources[i].label, table |-> sources[i].table] :
                    i \in {j \in DOMAIN sources : sources[j].label # None}}

Labels == {nl.label : nl \in node_labels}

TableOfLabel(l) == (CHOOSE nl \in node_labels : nl.label = l).table

\* number of rows of table with node_id = id
CountId(table, id) ==
    Cardinality({i \in DOMAIN NodeFile(table) : NodeFile(table)[i].node_id = id})

\* nodes_map: the bag of (node_id, label) over all labelled tables
nodes_map_count(id, l) == CountId(TableOfLabel(l), id)

\* relationships_typed: relationships joined twice with nodes_map
relationships_typed(rels) ==
    Positive([t \in {[node_id_start |-> r.node_id_start, node_id_end |-> r.node_id_end,
                      start_label |-> sl, end_label |-> el] :
                        r \in rels, sl \in Labels, el \in Labels} |->
                nodes_map_count(t.node_id_start, t.start_label)
                    * nodes_map_count(t.node_id_end, t.end_label)])

\* SELECT DISTINCT start_label, end_label FROM relationships_typed
combinations(typed) == {<<t.start_label, t.end_label>> : t \in DOMAIN typed}

rel_subname(start_label, end_label) == <<"rel_">> \o start_label \o <<"_">> \o end_label

edge_label(start, end) == <<"related_to_">> \o start \o <<"_">> \o end

\* a partition filtered on the start label alone
PartitionRowsStartOnly(typed, start_label, end_label) ==
    [t \in {u \in DOMAIN typed : u.start_label = start_label} |-> typed[t]]

\* the rows of relationships_typed with the given pair of labels
PartitionRows(typed, start_label, end_label) ==
    [t \in {u \in DOMAIN typed : u.start_label = start_label /\ u.end_label = end_label}
        |-> typed[t]]

\* CREATE OR REPLACE TABLE rel_<s>_<e> for every combination, in any order:
\* a later table of the same name replaces an earlier one.
NewRelTables(typed) ==
    LET names == {rel_subname(c[1], c[2]) : c \in combinations(typed)}
    IN  { f \in [names -> combinations(typed)] :
            \A n \in names : rel_subname(f[n][1], f[n][2]) = n }

edge_defs(typed) ==
    {[table |-> rel_subname(c[1], c[2]), label |-> edge_label(c[1], c[2]),
      src |-> c[1], dst |-> c[2]] : c \in combinations(typed)}

\* an append to the tables that exist instead of their replacement
InsertInto(tables, pick, typed) ==
    [n \in DOMAIN tables \cup DOMAIN pick |->
        IF n \in DOMAIN pick /\ n \in DOMAIN tables
        THEN BagPlus(tables[n], PartitionRows(typed, pick[n][1], pick[n][2]))
        ELSE IF n \in DOMAIN pick THEN PartitionRows(typed, pick[n][1], pick[n][2])
        ELSE tables[n]]

\* The rel_* tables of the session after the loop over combinations: the
\* tables it names are created or replaced, every other table stays.
CreateOrReplace(tables, pick, typed) ==
    [n \in DOMAIN tables \cup DOMAIN pick |->
        IF n \in DOMAIN pick THEN PartitionRows(typed, pick[n][1], pick[n][2])
        ELSE tables[n]]

\* CREATE OR REPLACE PROPERTY GRAPH is accepted.  With no combination its
\* EDGE TABLES list is empty, and two combinations of one name declare one
\* edge table and one label twice: the session rejects both statements.
DdlAccepted(typed) ==
    /\ edge_defs(typed) # {}
    /\ \A d1, d2 \in edge_defs(typed) :
          (d1.table = d2.table \/ d1.label = d2.label) => d1 = d2

\* One run of load_data on the session with the given relationships file.
\* When the session rejects the last statement the run raises: the tables
\* it made stay, the property graph is the one of before, and the service
\* does not start.
Run(rels) ==
    LET typed == relationships_typed(rels) IN
    /\ relationships' = rels
    /\ replaced' = relationships
    /\ \E pick \in NewRelTables(typed) :
          relTables' = CreateOrReplace(relTables, pick, typed)
    /\ IF DdlAccepted(typed)
       THEN pgEdges' = edge_defs(typed) /\ loaded' = loaded + 1
       ELSE pgEdges' = pgEdges /\ loaded' = -1

\* load_data on a new session, as the service runs it at startup
LoadData ==
    /\ loaded = 0
    /\ \E rels \in RelFiles : Run(rels)
    /\ UNCHANGED <<config, request, processor>>

\* load_data called again with the connection of an earlier run
LoadDataAgain ==
    /\ loaded \in 1..(MaxLoads - 1)
    /\ \E rels \in RelFiles : Run(rels)
    /\ UNCHANGED <<config, request, processor>>

-----------------------------------------------------------------------------
(* The DuckDB session as the handlers use it *)

NoReq == [op |-> "none"]

NoResp == [kind |-> "none"]

\* The default of the limit query parameter.
DefaultLimit == 100

ServerError == [kind |-> "error", status |-> 500]

InvalidNodeType == [kind |-> "error", status |-> 400]

\* SHOW TABLES: every table load_data created on the session
ShowTables ==
    {sources[i].table : i \in DOMAIN sources}
        \cup {<<"nodes_map">>, <<"relationships_typed">>} \cup DOMAIN relTables

\* One operand of a comparison starting at token i: the column a.node_id, or
\* a quoted literal running to the next quote.
Operand(toks, i) ==
    IF i > Len(toks) THEN [ok |-> FALSE, col |-> FALSE, val |-> <<>>, next |-> i]
    ELSE IF toks[i] = "a.node_id"
         THEN [ok |-> TRUE, col |-> TRUE, val |-> <<>>, next |-> i + 1]
    ELSE IF toks[i] = "'" /\ \E j \in (i + 1)..Len(toks) : toks[j] = "'"
         THEN LET j == Min({k \in (i + 1)..Len(toks) : toks[k] = "'"})
              IN  [ok |-> TRUE, col |-> FALSE, val |-> SubSeq(toks, i + 1, j - 1),
                   next |-> j + 1]
    ELSE [ok |-> FALSE, col |-> FALSE, val |-> <<>>, next |-> i]

RECURSIVE ParseWhere(_, _)
\* The predicate of a WHERE clause from token i on: comparisons joined by
\* OR.  [ok, cmps]: cmps is the sequence of <<left operand, right operand>>.
ParseWhere(toks, i) ==
    LET l == Operand(toks, i)
        r == Operand(toks, l.next + 1)
        bad == [ok |-> FALSE, cmps |-> <<>>]
    IN  IF ~l.ok \/ l.next > Len(toks) \/ toks[l.next] # "=" THEN bad
        ELSE IF ~r.ok THEN bad
        ELSE IF r.next > Len(toks) THEN [ok |-> TRUE, cmps |-> << <<l, r>> >>]
        ELSE IF toks[r.next] # "OR" THEN bad
        ELSE LET rest == ParseWhere(toks, r.next + 1)
             IN  IF rest.ok THEN [ok |-> TRUE, cmps |-> << <<l, r>> >> \o rest.cmps]
                 ELSE bad

OperandValue(o, a_node_id) == IF o.col THEN a_node_id ELSE o.val

\* whether the parsed predicate holds of a vertex a with the given node_id
WhereHolds(cmps, a_node_id) ==
    \E k \in DOMAIN cmps :
        OperandValue(cmps[k][1], a_node_id) = OperandValue(cmps[k][2], a_node_id)

\* whether the property graph declares the edge label between the two vertex labels
EdgeDeclared(part) ==
    \E d \in pgEdges : d.label = part.label /\ d.src = part.start /\ d.dst = part.end

EdgeTable(part) ==
    (CHOOSE d \in pgEdges : d.label = part.label /\ d.src = part.start /\ d.dst = part.end).table

\* the statement of one part is accepted by the session
PartOk(part) ==
    /\ EdgeDeclared(part)
    /\ EdgeTable(part) \in DOMAIN relTables
    /\ ParseWhere(part.where, 1).ok

\* The rows of one GRAPH_TABLE ... MATCH (x:start)-[r:label]->(y:end) WHERE
\* ... COLUMNS ... select: the edge table joined with both vertex tables on
\* node_id, filtered on the vertex the statement names a.
PartRows(part) ==
    LET tbl  == relTables[EdgeTable(part)]
        cmps == ParseWhere(part.where, 1).cmps
        a_id(t) == IF part.side = "out" THEN t.node_id_start ELSE t.node_id_end
        out(t) == [source_id |-> t.node_id_start, source_type |-> part.start,
                   target_id |-> t.node_id_end, target_type |-> part.end,
                   edge_type |-> part.label]
        hits == {t \in DOMAIN tbl : WhereHolds(cmps, a_id(t))}
    IN  [row \in {out(t) : t \in hits} |->
            SumOver([t \in hits |->
                        IF out(t) = row
                        THEN tbl[t] * CountId(TableOfLabel(part.start), t.node_id_start)
                                    * CountId(TableOfLabel(part.end), t.node_id_end)
                        ELSE 0], hits)]

RECURSIVE UnionAll(_)
\* the bag of rows of the parts joined by UNION ALL
UnionAll(parts) ==
    IF parts = {} THEN EmptyBag
    ELSE LET p == CHOOSE q \in parts : TRUE
         IN  BagPlus(Positive(PartRows(p)), UnionAll(parts \ {p}))

\* SELECT * FROM (...) LIMIT n: any n rows of the union, in any order
ApplyLimit(rows, limit) ==
    Draws(rows, IF limit < BagSize(rows) THEN limit ELSE BagSize(rows))

RECURSIVE UnionAllLimited(_, _)
\* the parts joined by UNION ALL, each cut to limit rows of its own
UnionAllLimited(parts, limit) ==
    IF parts = {} THEN EmptyBag
    ELSE LET p    == CHOOSE q \in parts : TRUE
             kept == CHOOSE d \in ApplyLimit(Positive(PartRows(p)), limit) : TRUE
             bag  == [row \in Range(kept) |-> Cardinality({i \in DOMAIN kept : kept[i] = row})]
         IN  BagPlus(bag, UnionAllLimited(parts \ {p}, limit))

\* a LIMIT placed in every select instead of around the union
PatternQueryLimitPerPart(parts, limit) ==
    ApplyLimit(UnionAllLimited(parts, limit), DefaultLimit)

\* conn.execute(full_wrapper).df(): the frames the session may return
PatternQuery(parts, limit) == ApplyLimit(UnionAll(parts), limit)

\* a select that lost its WHERE clause
SelectInNoWhere(table, ids) == NodeFile(table)

\* SELECT * FROM table WHERE id_field IN (ids), in storage order
SelectIn(table, ids) ==
    SelectSeq(NodeFile(table), LAMBDA row : row.node_id \in ids)

-----------------------------------------------------------------------------
(* get_node *)

Lower(name) ==
    [i \in DOMAIN name |-> CASE name[i] = "O" -> "o" [] name[i] = "E" -> "e" [] OTHER -> name[i]]

\* a lookup that falls back to the first source
FindSourceOrFirst(node_type) ==
    LET hits == {i \in DOMAIN sources : sources[i].node_type = node_type}
    IN  IF hits = {} THEN 1 ELSE Min(hits)

\* the first source whose node_type is the given one, or 0
FindSource(node_type) ==
    LET hits == {i \in DOMAIN sources : sources[i].node_type = node_type}
    IN  IF hits = {} THEN 0 ELSE Min(hits)

\* f"SELECT * FROM {table_name} WHERE {id_field} = ?" with the id bound
NodeQuery(src, id) ==
    [text |-> <<"SELECT * FROM">> \o src.table \o <<"WHERE", src.id_field, "= ?">>,
     params |-> <<id>>]

\* get_node without the test for an empty frame: df.iloc[0] raises
GetNodeOutcomeNoEmptyTest(node_type, id, fail) ==
    LET k == FindSource(node_type) IN
    IF k = 0 THEN [resp |-> InvalidNodeType, issued |-> <<>>]
    ELSE IF sources[k].id_field = "" THEN [resp |-> ServerError, issued |-> <<>>]
    ELSE LET q  == NodeQuery(sources[k], id)
             df == SelectIn(sources[k].table, {id})
         IN  IF fail \/ df = <<>> THEN [resp |-> ServerError, issued |-> <<q>>]
             ELSE [resp |-> [kind |-> "node", count |-> 1, data |-> df[1]],
                   issued |-> <<q>>]

\* the response of get_node and the statements it sends; fail: the session
\* raises on the statement
GetNodeOutcome(node_type, id, fail) ==
    LET k == FindSource(node_type) IN
    IF k = 0 THEN [resp |-> InvalidNodeType, issued |-> <<>>]
    ELSE IF sources[k].id_field = "" THEN [resp |-> ServerError, issued |-> <<>>]
    ELSE LET q  == NodeQuery(sources[k], id)
             df == SelectIn(sources[k].table, {id})
         IN  IF fail THEN [resp |-> ServerError, issued |-> <<q>>]
             ELSE IF df = <<>>
                  THEN [resp |-> [kind |-> "node", count |-> 0, data |-> None],
                        issued |-> <<q>>]
             ELSE [resp |-> [kind |-> "node", count |-> 1, data |-> df[1]],
                   issued |-> <<q>>]

-----------------------------------------------------------------------------
(* get_node_neighbors *)

prefix == <<"rel_">>

valid_rels(all_tables) == {t \in all_tables : Len(t) >= 1 /\ SubSeq(t, 1, 1) = prefix}

node_source_types ==
    {sources[i].node_type : i \in {j \in DOMAIN sources : sources[j].node_type # None}}

\* The split points of a table name's content: i characters of start type,
\* an underscore, and the end type, both known types.
SplitPoints(content) ==
    {i \in 1..(Len(content) - 1) :
        /\ content[i + 1] = "_"
        /\ SubSeq(content, 1, i) \in node_source_types
        /\ SubSeq(content, i + 2, Len(content)) \in node_source_types}

\* <<found, start_match, end_match>> of a table name, at the first split point
ParseRelName(t_name) ==
    LET content == SubSeq(t_name, Len(prefix) + 1, Len(t_name))
        pts == SplitPoints(content)
    IN  IF pts = {} THEN [found |-> FALSE, start |-> None, end |-> None]
        ELSE [found |-> TRUE, start |-> SubSeq(content, 1, Min(pts)),
              end |-> SubSeq(content, Min(pts) + 2, Len(content))]

\* f"... WHERE a.node_id = '{id}' ..."
WhereText(id) == <<"a.node_id", "=", "'">> \o id \o <<"'">>

\* the selects appended to union_queries
union_queries(all_tables, n_type_lower, id, direction) ==
    LET rels == {ParseRelName(t) : t \in valid_rels(all_tables)}
        part(r, side) == [start |-> r.start, end |-> r.end,
                          label |-> edge_label(r.start, r.end),
                          side |-> side, where |-> WhereText(id)]
    IN  {part(r, "out") : r \in {x \in rels : x.found /\ x.start = n_type_lower
                                              /\ direction \in {"out", "both"}}}
        \cup
        {part(r, "in") : r \in {x \in rels : x.found /\ x.end = n_type_lower
                                             /\ direction \in {"in", "both"}}}

\* f"SELECT * FROM ({full_query}) LIMIT {limit}": nothing is bound
full_wrapper(parts, limit) ==
    [text |-> [parts |-> parts, limit |-> <<ToString(limit)>>], params |-> <<>>]

\* nodes_map[key] = value of a dict that keeps insertion order
DictPut(m, id, node_type) ==
    IF \E i \in DOMAIN m : m[i].id = id
    THEN [i \in DOMAIN m |-> IF m[i].id = id THEN [id |-> id, node_type |-> node_type]
                             ELSE m[i]]
    ELSE Append(m, [id |-> id, node_type |-> node_type])

RECURSIVE Topology(_, _, _)
\* the loop over the rows of df: <<nodes_map, edges_list>>
Topology(df, m, edges) ==
    IF df = <<>> THEN <<m, edges>>
    ELSE LET row == Head(df)
             m1  == DictPut(m, row.source_id, row.source_type)
             m2  == DictPut(m1, row.target_id, row.target_type)
             e   == [id |-> <<"rel_">> \o row.source_id \o <<"_">> \o row.target_id,
                     source |-> row.source_id, target |-> row.target_id,
                     type |-> row.edge_type]
         IN  Topology(Tail(df), m2, Append(edges, e))

RECURSIVE TypesInOrder(_, _)
\* the keys of ids_by_type in insertion order
TypesInOrder(m, seen) ==
    IF m = <<>> THEN <<>>
    ELSE IF Head(m).node_type \in seen THEN TypesInOrder(Tail(m), seen)
    ELSE <<Head(m).node_type>> \o TypesInOrder(Tail(m), seen \cup {Head(m).node_type})

\* a batch that asks for the row of the queried node only
IdsOfTypeFirstOnly(m, nt) ==
    {m[i].id : i \in {j \in DOMAIN m : m[j].node_type = nt /\ j = 1}}

IdsOfType(m, nt) == {m[i].id : i \in {j \in DOMAIN m : m[j].node_type = nt}}

PropsQuery(src, ids) ==
    [text |-> <<"SELECT * FROM">> \o src.table \o <<"WHERE", src.id_field, "IN (?)">>,
     params |-> ids]

RECURSIVE FetchProperties(_, _, _, _, _)
\* The loop over ids_by_type: call is the number of the session call the
\* next batch is, failAt the one that raises.  [ok, nodes, issued].
FetchProperties(types, m, call, failAt, acc) ==
    IF types = <<>> THEN [ok |-> TRUE, nodes |-> acc.nodes, issued |-> acc.issued]
    ELSE LET n_type == Head(types)
             k   == FindSource(n_type)
             ids == IdsOfType(m, n_type)
         IN  IF k = 0 THEN FetchProperties(Tail(types), m, call, failAt, acc)
             ELSE IF sources[k].id_field = ""
                  THEN [ok |-> FALSE, nodes |-> <<>>, issued |-> acc.issued]
             ELSE LET q    == PropsQuery(sources[k], ids)
                      rows == SelectIn(sources[k].table, ids)
                      new  == [i \in DOMAIN rows |->
                                 [id |-> rows[i].node_id, node_type |-> n_type,
                                  properties |-> rows[i]]]
                  IN  IF call = failAt
                      THEN [ok |-> FALSE, nodes |-> <<>>, issued |-> Append(acc.issued, q)]
                      ELSE FetchProperties(Tail(types), m, call + 1, failAt,
                              [nodes |-> acc.nodes \o new, issued |-> Append(acc.issued, q)])

ShowTablesQuery == [text |-> <<"SHOW TABLES">>, params |-> <<>>]

\* The responses get_node_neighbors can give, each with the statements sent.
\* failAt: the session call that raises (0: none).
NeighborsOutcomes(node_type, id, direction, limit, failAt) ==
    LET n_type_lower == Lower(node_type) IN
    IF FindSource(n_type_lower) = 0
    THEN {[resp |-> InvalidNodeType, issued |-> <<>>]}
    ELSE
    LET all_tables == IF failAt = 1 THEN {} ELSE ShowTables
        parts == union_queries(all_tables, n_type_lower, id, direction)
        q     == full_wrapper(parts, limit)
        sent  == <<ShowTablesQuery, q>>
    IN  IF parts = {}
        THEN {[resp |-> [kind |-> "graph", nodes |-> <<>>, edges |-> <<>>],
               issued |-> <<ShowTablesQuery>>]}
        ELSE IF failAt = 2 \/ \E p \in parts : ~PartOk(p)
        THEN {[resp |-> ServerError, issued |-> sent]}
        ELSE
        { LET topo  == Topology(df, <<[id |-> id, node_type |-> n_type_lower]>>, <<>>)
              props == FetchProperties(TypesInOrder(topo[1], {}), topo[1], 3, failAt,
                                       [nodes |-> <<>>, issued |-> sent])
          IN  IF props.ok
              THEN [resp |-> [kind |-> "graph", nodes |-> props.nodes, edges |-> topo[2]],
                    issued |-> props.issued]
              ELSE [resp |-> ServerError, issued |-> props.issued]
          : df \in PatternQuery(parts, limit) }

-----------------------------------------------------------------------------
(* The requests the model sends *)

\* "9' OR a.node_id = '2"
QuotedId == <<"9", "'", "OR", "a.node_id", "=", "'", "2">>

ReqIds ==
    IF config = icij
    THEN {<<"1">>, <<"2">>, <<"3">>, <<"4">>, <<"5">>, <<"9">>, QuotedId}
    ELSE {<<"1">>, <<"2">>, <<"6">>, <<"7">>}

ReqTypes ==
    IF config = icij
    THEN {<<"o">>, <<"e">>, <<"n">>, <<"O">>, <<"x">>}
    ELSE {<<"o">>, <<"o", "_", "o">>, <<"x">>}

Directions == {"out", "in", "both"}

Limits == 0..MaxSmallLimit \cup {DefaultLimit}

GetNode ==
    /\ loaded > 0
    /\ req = NoReq
    /\ \E node_type \in ReqTypes, id \in ReqIds, fail \in BOOLEAN :
        LET o == GetNodeOutcome(node_type, id, fail) IN
        /\ fail => o.issued # <<>>
        /\ req' = [op |-> "get_node", node_type |-> node_type, id |-> id,
                   direction |-> "", limit |-> 0, failAt |-> IF fail THEN 1 ELSE 0]
        /\ resp' = o.resp
        /\ issued' = o.issued
    /\ UNCHANGED <<config, session, processor>>

GetNodeNeighbors ==
    /\ loaded > 0
    /\ req = NoReq
    /\ \E node_type \in ReqTypes, id \in ReqIds, direction \in Directions,
          limit \in Limits, failAt \in 0..MaxFailAt :
        \E o \in NeighborsOutcomes(node_type, id, direction, limit, failAt) :
            /\ failAt > 0 => (Len(o.issued) >= failAt /\ o.resp # InvalidNodeType)
            /\ req' = [op |-> "get_node_neighbors", node_type |-> node_type, id |-> id,
                       direction |-> direction, limit |-> limit, failAt |-> failAt]
            /\ resp' = o.resp
            /\ issued' = o.issued
    /\ UNCHANGED <<config, session, processor>>

\* The handler has returned: the response is sent and the request's values
\* are dropped; the session is as it was.
Discard ==
    /\ req # NoReq
    /\ req' = NoReq
    /\ resp' = NoResp
    /\ issued' = <<>>
    /\ UNCHANGED <<config, session, processor>>

-----------------------------------------------------------------------------
(* process_data: the resolution of the path of every node source.  A path  *)
(* is a sequence of tokens: a directory or file name, "/", and each        *)
(* occurrence of ".csv" or ".parquet" a token of its own.                  *)

\* os.environ.get(key, default)
environ_get(key, default) == IF key \in DOMAIN environ THEN environ[key] ELSE default

\* os.path.basename
basename(path) ==
    LET slashes == {i \in DOMAIN path : path[i] = "/"}
    IN  IF slashes = {} THEN path
        ELSE SubSeq(path, (CHOOSE i \in slashes : \A j \in slashes : j <= i) + 1, Len(path))

\* os.path.dirname
dirname(path) ==
    LET slashes == {i \in DOMAIN path : path[i] = "/"}
        last == CHOOSE i \in slashes : \A j \in slashes : j <= i
    IN  IF slashes = {} THEN <<>>
        ELSE IF last = 1 THEN <<"/">>
        ELSE SubSeq(path, 1, last - 1)

\* os.path.join of a directory and a file name
join(dir, filename) ==
    IF filename # <<>> /\ filename[1] = "/" THEN filename
    ELSE IF dir = <<>> \/ dir[Len(dir)] = "/" THEN dir \o filename
    ELSE dir \o <<"/">> \o filename

\* str.endswith
endswith(path, suffix) == path # <<>> /\ path[Len(path)] = suffix

\* str.replace: every occurrence of old becomes new
replace(path, old, new) == [i \in DOMAIN path |-> IF path[i] = old THEN new ELSE path[i]]

\* Lines 35-82: the look in DATA_DIR.  [file_path, path]: the local
\* file_path and source["path"] after it.
ResolveInDataDir(source, fs) ==
    LET data_dir    == environ_get("DATA_DIR", <<"/", "data">>)
        file_path   == source.path
        filename    == basename(file_path)
        env_path    == join(data_dir, filename)
        env_parquet == join(data_dir, replace(filename, ".csv", ".parquet"))
        env_csv     == join(data_dir, replace(filename, ".parquet", ".csv"))
    IN  IF env_path \in fs THEN [file_path |-> env_path, path |-> env_path]
        ELSE IF endswith(file_path, ".csv")
             THEN IF env_parquet \in fs
                  THEN [file_path |-> env_parquet, path |-> env_parquet]
                  ELSE [file_path |-> file_path, path |-> source.path]
        ELSE IF endswith(file_path, ".parquet")
             THEN IF env_csv \in fs
                  THEN [file_path |-> env_csv, path |-> source.path]
                  ELSE [file_path |-> file_path, path |-> source.path]
        ELSE [file_path |-> file_path, path |-> source.path]

\* Lines 88-106: the check of existence and its fallbacks.
CheckExistence(r, fs) ==
    LET parquet_path == replace(r.file_path, ".csv", ".parquet")
        csv_path     == replace(r.file_path, ".parquet", ".csv")
    IN  IF r.file_path \in fs
        THEN [found |-> TRUE, file_path |-> r.file_path, path |-> r.path]
        ELSE IF endswith(r.file_path, ".csv")
             THEN IF parquet_path \in fs
                  THEN [found |-> TRUE, file_path |-> parquet_path, path |-> parquet_path]
                  ELSE [found |-> FALSE, file_path |-> r.file_path, path |-> r.path]
        ELSE IF endswith(r.file_path, ".parquet")
             THEN IF csv_path \in fs
                  THEN [found |-> TRUE, file_path |-> csv_path, path |-> r.path]
                  ELSE [found |-> FALSE, file_path |-> r.file_path, path |-> r.path]
        ELSE [found |-> FALSE, file_path |-> r.file_path, path |-> r.path]

\* whether COPY ... TO path can write: the directory of path exists
Writable(path, fs) == \E f \in fs : dirname(f) = dirname(path)

RawTable(table_name) == <<"raw_">> \o table_name

\* the two statements of a conversion (lines 139-140)
ConvertStatements(table_name, file_path, parquet_path) ==
    << [text |-> <<"CREATE OR REPLACE TABLE">> \o RawTable(table_name)
                    \o <<"AS SELECT * FROM read_csv_auto(">> \o file_path \o <<")">>,
        reads |-> file_path, writes |-> None],
       [text |-> <<"COPY">> \o RawTable(table_name) \o <<"TO">> \o parquet_path
                    \o <<"(FORMAT PARQUET)">>,
        reads |-> None, writes |-> parquet_path] >>

RECURSIVE NodeSources(_, _, _)
\* The loop over config["sources"] (lines 21-154).  st: what the loop has
\* done so far, [raised, fs, config, processed_sources, used, executed].
NodeSources(srcs, k, st) ==
    IF k > Len(srcs) \/ st.raised THEN st
    ELSE IF srcs[k].table = <<"relationships">> THEN NodeSources(srcs, k + 1, st)
    ELSE
    LET source == srcs[k]
        c      == CheckExistence(ResolveInDataDir(source, st.fs), st.fs)
        mutated == [source EXCEPT !.path = c.path]
        config1 == [st.config EXCEPT !.sources[k] = mutated]
        parquet_path == replace(c.file_path, ".csv", ".parquet")
    IN  IF ~c.found
        THEN [st EXCEPT !.raised = TRUE, !.config = config1]
        ELSE IF endswith(c.file_path, ".csv")
        THEN IF ~Writable(parquet_path, st.fs)
             THEN [st EXCEPT !.raised = TRUE, !.config = config1,
                             !.executed = @ \o SubSeq(ConvertStatements(source.table,
                                                          c.file_path, parquet_path), 1, 1)]
             ELSE NodeSources(srcs, k + 1,
                    [raised |-> FALSE,
                     fs |-> st.fs \cup {parquet_path},
                     config |-> config1,
                     processed_sources |->
                        Append(st.processed_sources, [mutated EXCEPT !.path = parquet_path]),
                     used |-> Append(st.used, c.file_path),
                     executed |-> st.executed \o ConvertStatements(source.table,
                                                     c.file_path, parquet_path)])
        ELSE NodeSources(srcs, k + 1,
                    [raised |-> FALSE,
                     fs |-> st.fs,
                     config |-> config1,
                     processed_sources |-> Append(st.processed_sources, mutated),
                     used |-> Append(st.used, c.file_path),
                     executed |-> st.executed])

\* process_data(config) for a configuration that names no relationships
\* table: the second part (lines 156-249) does nothing then.
ProcessOutcome(cfg, fs) ==
    NodeSources(cfg.sources, 1,
        [raised |-> FALSE, fs |-> fs, config |-> cfg,
         processed_sources |-> <<>>, used |-> <<>>, executed |-> <<>>])

\* the directories and the file names of the model
DataDirs == { <<"data">>, <<"/", "data">>, <<"/", "custom", "/", "data">> }

FileNames ==
    { <<"foo", ".csv">>, <<"foo", ".parquet">>, <<"foo", ".csv", ".csv">>,
      <<"foo", ".parquet", ".parquet">>, <<"foo", ".csv", ".parquet">> }

Files == {join(d, f) : d \in DataDirs, f \in FileNames}

FileSystems == {F \in SUBSET Files : Cardinality(F) <= MaxFiles}

Environs == { <<>>, [k \in {"DATA_DIR"} |-> <<"/", "custom", "/", "data">>] }

ConfiguredPaths ==
    { <<"data", "/", "foo", ".csv">>, <<"data", "/", "foo", ".parquet">>,
      <<"data", "/", "foo", ".csv", ".csv">> }

PConfigs ==
    {[sources |-> << [table |-> <<"foo">>, path |-> path, node_type |-> <<"foo">>] >>] :
        path \in ConfiguredPaths}

\* One call of process_data.  The caller's configuration is changed in
\* place (source["path"]), the converted files are written.
ProcessData ==
    /\ pconfig # None
    /\ processed = None
    /\ LET o == ProcessOutcome(pconfig, fsys) IN
        /\ processed' = IF o.raised
                         THEN [status |-> "raised", sources |-> <<>>, used |-> o.used,
                               executed |-> o.executed]
                         ELSE [status |-> "returned", sources |-> o.processed_sources,
                               used |-> o.used, executed |-> o.executed]
        /\ pconfig' = o.config
        /\ fsys' = o.fs
    /\ UNCHANGED <<config, session, request, environ>>

-----------------------------------------------------------------------------
(* Properties *)

IsNeighbors == req.op = "get_node_neighbors"

IsGetNode == req.op = "get_node"

IsGraph == IsNeighbors /\ resp.kind = "graph"

\* the selects of the pattern query the request sent (none when it sent none)
SentParts == IF Len(issued) >= 2 THEN issued[2].text.parts ELSE {}

\* the positions of nodes that hold the queried id
SelfEntries == {i \in DOMAIN resp.nodes : resp.nodes[i].id = req.id}

\* C1: every graph returned for a catalog node type holds the queried node
\* exactly once in nodes, with the queried id and the queried type.
C1_QueriedNodeOnce ==
    IsGraph =>
        /\ Cardinality(SelfEntries) = 1
        /\ \A i \in SelfEntries : resp.nodes[i].node_type = Lower(req.node_type)

\* the edge e is a row of the partition table named n, in its stored
\* direction and with the partition's label
StoredIn(e, n) ==
    LET pr == ParseRelName(n) IN
    /\ pr.found
    /\ e.type = edge_label(pr.start, pr.end)
    /\ \E t \in DOMAIN relTables[n] :
          /\ t.start_label = pr.start /\ t.end_label = pr.end
          /\ e.source = t.node_id_start /\ e.target = t.node_id_end

OutEdgeOk(e) ==
    /\ e.source = req.id
    /\ \E n \in DOMAIN relTables :
          StoredIn(e, n) /\ ParseRelName(n).start = Lower(req.node_type)

InEdgeOk(e) ==
    /\ e.target = req.id
    /\ \E n \in DOMAIN relTables :
          StoredIn(e, n) /\ ParseRelName(n).end = Lower(req.node_type)

\* C2: every returned edge is a stored row in its stored direction; with
\* "out" its source is the queried id and its partition starts at the
\* queried type, with "in" its target is the queried id and its partition
\* ends at the queried type.
C2_EdgesStoredDirection ==
    IsGraph =>
        \A k \in DOMAIN resp.edges :
            LET e == resp.edges[k] IN
            CASE req.direction = "out" -> OutEdgeOk(e)
              [] req.direction = "in"  -> InEdgeOk(e)
              [] OTHER                 -> OutEdgeOk(e) \/ InEdgeOk(e)

\* the edges the same request returns with another direction, no call failing
EdgesFor(direction) ==
    UNION {Range(o.resp.edges) :
            o \in {x \in NeighborsOutcomes(req.node_type, req.id, direction, req.limit, 0) :
                      x.resp.kind = "graph"}}

NoDuplicate(s) == \A i, j \in DOMAIN s : s[i] = s[j] => i = j

\* C3: with the default limit (which truncates nothing here) the edges of
\* "both" are the union of the edges of "out" and of "in", and no edge entry
\* occurs twice.
C3_BothIsUnionNoDuplicate ==
    (IsGraph /\ req.direction = "both" /\ req.limit = DefaultLimit /\ req.failAt = 0) =>
        /\ Range(resp.edges) = EdgesFor("out") \cup EdgesFor("in")
        /\ NoDuplicate(resp.edges)

\* the rows the selects the request sent match, over all of them
TotalMatching == BagSize(UnionAll(SentParts))

EdgeOfRow(row) ==
    [id |-> <<"rel_">> \o row.source_id \o <<"_">> \o row.target_id,
     source |-> row.source_id, target |-> row.target_id, type |-> row.edge_type]

\* how many entries of the sequence s equal x
Occurrences(s, x) == Cardinality({i \in DOMAIN s : s[i] = x})

C5_AllOrNothing ==
    (IsNeighbors /\ req.failAt > 0) => resp.kind = "error"

\* the request names a type that no catalog entry matches: as written for
\* get_node, lower-cased for get_node_neighbors
UnknownType ==
    \/ IsGetNode /\ req.node_type \notin node_source_types
    \/ IsNeighbors /\ Lower(req.node_type) \notin node_source_types

\* C6: a request with an unknown node type ends in the invalid-node-type
\* error, sends no statement to the session and changes nothing of it.
C6_InvalidTypeNoQuery ==
    /\ [](UnknownType => (resp = InvalidNodeType /\ issued = <<>>))
    /\ [][UnknownType' => UNCHANGED session]_vars

C6_Witness ==
    /\ IsNeighbors
    /\ req.node_type = <<"x">>
    /\ resp = InvalidNodeType

\* the pair of types of the partition an edge label names
PairOfLabel(label) ==
    CHOOSE c \in node_source_types \X node_source_types : edge_label(c[1], c[2]) = label

\* The writes to the node map in the order they were made: the queried
\* node, then source and target of every edge in turn.
Writes ==
    <<[id |-> req.id, node_type |-> Lower(req.node_type)]>> \o
    [k \in 1..(2 * Len(resp.edges)) |->
        LET e == resp.edges[(k + 1) \div 2] IN
        IF k % 2 = 1 THEN [id |-> e.source, node_type |-> PairOfLabel(e.type)[1]]
        ELSE [id |-> e.target, node_type |-> PairOfLabel(e.type)[2]]]

FirstTypeOf(id) == Writes[Min({k \in DOMAIN Writes : Writes[k].id = id})].node_type

\* C7: nodes holds one entry per id, and the entry of an id written more
\* than once keeps the type that was recorded first.
C7_FirstWriteWins ==
    IsGraph =>
        /\ \A i, j \in DOMAIN resp.nodes :
              resp.nodes[i].id = resp.nodes[j].id => i = j
        /\ \A i \in DOMAIN resp.nodes :
              resp.nodes[i].node_type = FirstTypeOf(resp.nodes[i].id)

\* the positions of the rows of the backing table of the requested type
\* that hold the requested id
RowsWithId ==
    LET k == FindSource(req.node_type) IN
    IF k = 0 THEN {}
    ELSE {i \in DOMAIN NodeFile(sources[k].table) :
              NodeFile(sources[k].table)[i].node_id = req.id}

\* C8: get_node on an id present in the backing table of a catalog type
\* returns a found result with one record, the first row that holds the id
\* (when the session executes the statement).
C8_GetNodeFound ==
    (IsGetNode /\ req.failAt = 0 /\ RowsWithId # {}) =>
        /\ resp.kind = "node"
        /\ resp.count = 1
        /\ resp.data.node_id = req.id
        /\ resp.data = NodeFile(sources[FindSource(req.node_type)].table)[Min(RowsWithId)]

\* a found result for an id that two rows of the table hold
C8_Witness ==
    /\ IsGetNode
    /\ Cardinality(RowsWithId) = 2
    /\ resp.kind = "node"
    /\ resp.count = 1

\* C9: get_node on an id absent from the backing table of a catalog type
\* with an id field returns the not-found result, not an error (when the
\* session executes the statement).
C9_GetNodeNotFound ==
    (/\ IsGetNode /\ req.failAt = 0
     /\ FindSource(req.node_type) # 0
     /\ sources[FindSource(req.node_type)].id_field # ""
     /\ RowsWithId = {}) =>
        resp = [kind |-> "node", count |-> 0, data |-> None]

C9_Witness ==
    /\ IsGetNode
    /\ req.node_type = <<"o">>
    /\ req.id = <<"9">>
    /\ resp = [kind |-> "node", count |-> 0, data |-> None]

\* the text of the pattern query the same request sends for another id
PatternTextFor(id) ==
    full_wrapper(union_queries(ShowTables, Lower(req.node_type), id, req.direction),
                 req.limit).text

\* C10: the id reaches the session only as a bound parameter: the text of
\* every statement of a request is the text the request sends for any other
\* id.
C10_IdOnlyBound ==
    /\ (IsGetNode /\ Len(issued) >= 1) =>
          \A id \in ReqIds :
              issued[1].text = NodeQuery(sources[FindSource(req.node_type)], id).text
    /\ (IsNeighbors /\ Len(issued) >= 2) =>
          \A id \in ReqIds : issued[2].text = PatternTextFor(id)

\* table relationships_typed of the session
typedNow == relationships_typed(relationships)

\* C11: after a completed run every row of every declared edge partition
\* carries the pair of labels the partition is declared for, and an enriched
\* row labelled (A, B) is in the partition declared for (A, B), in no
\* partition declared for another pair, and in no other rel_ table.
C11_PartitionCarriesPair ==
    loaded > 0 =>
        /\ \A d \in pgEdges : \A t \in DOMAIN relTables[d.table] :
              t.start_label = d.src /\ t.end_label = d.dst
        /\ \A t \in DOMAIN typedNow :
              /\ \A d \in pgEdges :
                    (t \in DOMAIN relTables[d.table])
                        <=> (d.src = t.start_label /\ d.dst = t.end_label)
              /\ \A n \in DOMAIN relTables :
                    (t \in DOMAIN relTables[n])
                        <=> (n = rel_subname(t.start_label, t.end_label))

\* a completed run that made the partitions of a pair and of its reverse
C11_Witness ==
    /\ loaded > 0
    /\ \E d1, d2 \in pgEdges :
          /\ d1.src # d1.dst /\ d2.src = d1.dst /\ d2.dst = d1.src
          /\ DOMAIN relTables[d1.table] # {} /\ DOMAIN relTables[d2.table] # {}

\* C12: the table names and the edge labels generated for two distinct
\* pairs of types differ, so that after a run every pair of types of
\* relationships_typed has its table, holding the rows of that pair.
C12_NamesInjective ==
    /\ \A c1, c2 \in combinations(typedNow) :
          c1 # c2 => /\ rel_subname(c1[1], c1[2]) # rel_subname(c2[1], c2[2])
                     /\ edge_label(c1[1], c1[2]) # edge_label(c2[1], c2[2])
    /\ loaded # 0 =>
          \A c \in combinations(typedNow) :
              /\ rel_subname(c[1], c[2]) \in DOMAIN relTables
              /\ relTables[rel_subname(c[1], c[2])] = PartitionRows(typedNow, c[1], c[2])

\* the partitions a request of the queried type and direction has to select:
\* <<start type, end type, side the queried node is on>>
PartitionsToSelect ==
    {<<d.src, d.dst, "out">> :
        d \in {x \in pgEdges : /\ x.src = Lower(req.node_type)
                                /\ req.direction \in {"out", "both"}}}
    \cup
    {<<d.src, d.dst, "in">> :
        d \in {x \in pgEdges : /\ x.dst = Lower(req.node_type)
                                /\ req.direction \in {"in", "both"}}}

\* C17: parsing the name of every partition table of the graph gives the
\* pair of types the table was made for, and a request selects the
\* partitions that start at the queried type ("out"), end at it ("in") or
\* either ("both"), and no other.
C17_ParseRecoversPair ==
    loaded > 0 =>
        /\ \A d \in pgEdges :
              /\ ParseRelName(d.table).found
              /\ ParseRelName(d.table).start = d.src
              /\ ParseRelName(d.table).end = d.dst
        /\ (IsNeighbors /\ ~UnknownType /\ req.failAt # 1) =>
              {<<p.start, p.end, p.side>> : p \in SentParts} = PartitionsToSelect

\* a run of load_data on the relationships the run before it loaded, both
\* completed
SameInputAgain ==
    /\ loaded > 0
    /\ loaded' = loaded + 1
    /\ relationships' = relationships

\* C13: a run of load_data on the input of the run before it leaves the
\* vertex labels, the edge tables and labels of the graph and the rows of
\* every partition table (each as many times) as they were.
C13_Idempotent ==
    [][SameInputAgain =>
          /\ node_labels' = node_labels
          /\ pgEdges' = pgEdges
          /\ relTables' = relTables]_vars

\* the second of two runs on one input that makes two partitions or more
C13_Witness ==
    /\ loaded = 2
    /\ replaced = relationships
    /\ Cardinality(pgEdges) >= 2

\* the pairs of types of the partition tables a request discovers
DiscoveredPairs ==
    {<<pr.start, pr.end>> :
        pr \in {x \in {ParseRelName(t) : t \in valid_rels(ShowTables)} : x.found}}

\* C14: after any number of runs the partition tables a request discovers
\* are those of the pairs of types of the latest relationships, with no
\* table left from an earlier run.
C14_LatestSchemaOnly ==
    loaded > 0 => DiscoveredPairs = combinations(typedNow)

\* the enriched rows that the raw row r contributes
EnrichedOf(r) ==
    {t \in DOMAIN typedNow : /\ t.node_id_start = r.node_id_start
                              /\ t.node_id_end = r.node_id_end}

\* the partition tables that hold a row made from the raw row r
PartitionsOf(r) ==
    {n \in DOMAIN relTables :
        \E t \in DOMAIN relTables[n] : /\ t.node_id_start = r.node_id_start
                                        /\ t.node_id_end = r.node_id_end}

\* whether some labelled node table holds the id
Resolves(id) == \E l \in Labels : nodes_map_count(id, l) > 0

\* C18: every raw relationship row contributes at most one enriched row and
\* is in at most one partition; a row with an endpoint that resolves to no
\* type is in none.
C18_AtMostOnePartition ==
    loaded > 0 =>
        \A r \in relationships :
            /\ SumOver(typedNow, EnrichedOf(r)) <= 1
            /\ Cardinality(PartitionsOf(r)) <= 1
            /\ (~Resolves(r.node_id_start) \/ ~Resolves(r.node_id_end))
                  => PartitionsOf(r) = {}

\* the ids of the entries of nodes
NodeIds == {resp.nodes[i].id : i \in DOMAIN resp.nodes}

\* C19: in every graph returned, the source and the target of every edge
\* are ids of entries of nodes.
C19_EdgesClosed ==
    IsGraph =>
        \A k \in DOMAIN resp.edges :
            resp.edges[k].source \in NodeIds /\ resp.edges[k].target \in NodeIds

\* a graph with an edge whose endpoint is an id held by tables of two types
C19_Witness ==
    /\ IsGraph
    /\ \E k \in DOMAIN resp.edges :
          /\ resp.edges[k].target # resp.edges[k].source
          /\ Cardinality({l \in Labels : nodes_map_count(resp.edges[k].target, l) > 0}) = 2

\* the path with its last extension replaced: same directory, same stem
WithExt(path, ext) == SubSeq(path, 1, Len(path) - 1) \o <<ext>>

\* a step in which process_data returns
ProcessReturns == processed = None /\ processed'.status = "returned"

\* C15: when process_data returns, the path returned for a node source
\* configured as .csv or .parquet ends in .parquet; a CSV that was found is
\* converted to the .parquet file of the same stem in the CSV's directory,
\* which is the path returned; and with a configured .parquet missing and
\* only its sibling .csv in existence, that CSV is converted and the path
\* returned is the configured one.
C15_ReturnsParquet ==
    [][ProcessReturns =>
          \A i \in DOMAIN pconfig.sources :
              LET configured == pconfig.sources[i].path
                  returned   == processed'.sources[i].path
                  used       == processed'.used[i]
              IN  (endswith(configured, ".csv") \/ endswith(configured, ".parquet")) =>
                    /\ endswith(returned, ".parquet")
                    /\ endswith(used, ".csv") =>
                          /\ returned = WithExt(used, ".parquet")
                          /\ \E k \in DOMAIN processed'.executed :
                                processed'.executed[k].writes = returned
                    /\ (/\ endswith(configured, ".parquet")
                        /\ fsys = {WithExt(configured, ".csv")}) =>
                          /\ used = WithExt(configured, ".csv")
                          /\ returned = configured]_vars

\* C16: a node source is looked up in DATA_DIR ("/data" when unset) first:
\* DATA_DIR/<basename of the configured path>, when it exists, is the file
\* used; otherwise, for a configured .csv, DATA_DIR/<stem>.parquet, when it
\* exists, is the file used and the path returned, and nothing is converted.
C16_DataDirFirst ==
    [][(processed = None /\ processed' # None) =>
          \A i \in DOMAIN pconfig.sources :
              LET data_dir    == environ_get("DATA_DIR", <<"/", "data">>)
                  configured  == pconfig.sources[i].path
                  env_path    == join(data_dir, basename(configured))
                  env_parquet == join(data_dir, WithExt(basename(configured), ".parquet"))
              IN  /\ env_path \in fsys =>
                        /\ processed'.status = "returned"
                        /\ processed'.used[i] = env_path
                  /\ (/\ env_path \notin fsys
                      /\ endswith(configured, ".csv")
                      /\ env_parquet \in fsys) =>
                        /\ processed'.status = "returned"
                        /\ processed'.used[i] = env_parquet
                        /\ processed'.sources[i].path = env_parquet
                        /\ processed'.executed = <<>>]_vars

-----------------------------------------------------------------------------

Init ==
    /\ config = icij
    /\ loaded = 0
    /\ relationships = {}
    /\ replaced = {}
    /\ relTables = [n \in {} |-> EmptyBag]
    /\ pgEdges = {}
    /\ req = NoReq
    /\ resp = NoResp
    /\ issued = <<>>
    /\ environ = None
    /\ fsys = {}
    /\ pconfig = None
    /\ processed = None

Next == LoadData \/ GetNode \/ GetNodeNeighbors \/ Discard

Spec == Init /\ [][Next]_vars

\* the service on a catalog whose type names hold the separator
InitCatalog ==
    /\ config = underscored
    /\ loaded = 0
    /\ relationships = {}
    /\ replaced = {}
    /\ relTables = [n \in {} |-> EmptyBag]
    /\ pgEdges = {}
    /\ req = NoReq
    /\ resp = NoResp
    /\ issued = <<>>
    /\ environ = None
    /\ fsys = {}
    /\ pconfig = None
    /\ processed = None

SpecCatalog == InitCatalog /\ [][Next]_vars

\* load_data run more than once on one session
NextReload == LoadData \/ LoadDataAgain

SpecReload == Init /\ [][NextReload]_vars

\* process_data on a configuration, an environment and a file system
InitProcess ==
    /\ config = icij
    /\ loaded = 0
    /\ relationships = {}
    /\ replaced = {}
    /\ relTables = [n \in {} |-> EmptyBag]
    /\ pgEdges = {}
    /\ req = NoReq
    /\ resp = NoResp
    /\ issued = <<>>
    /\ environ \in Environs
    /\ fsys \in FileSystems
    /\ pconfig \in PConfigs
    /\ processed = None

NextProcess == ProcessData

SpecProcess == InitProcess /\ [][NextProcess]_vars
====
